---- MODULE Spec2Model ----
(***************************************************************************)
(* Tool table subsystem of QtPyVCP: the file-backed ToolTable plugin       *)
(* (qtpyvcp/plugins/tool_table.py) and the database-backed DBToolTable     *)
(* plugin (src/qtpyvcp/plugins/db_tool_table.py).                          *)
(*                                                                         *)
(* Text is modelled character by character: a line is a sequence of        *)
(* one-character strings, a file is a sequence of lines.  Floating point   *)
(* values are integers counting units of 10^-7 ("ticks"), one digit more   *)
(* than the six decimals the writer keeps, so that formatting rounds.      *)
(***************************************************************************)
EXTENDS Integers, Sequences, FiniteSets, TLC

(***************************************************************************)
(* Program constants                                                       *)
(***************************************************************************)
INT_COLUMN_WIDTH == 6
FLOAT_COLUMN_WIDTH == 12
FLOAT_DECIMAL_PLACES == 6

\* ticks per unit: 10^(FLOAT_DECIMAL_PLACES + 1)
TicksPerUnit == 10000000
\* ticks per unit of the last written decimal
TicksPerStep == 10
\* written steps per unit: 10^FLOAT_DECIMAL_PLACES
StepsPerUnit == 1000000

ALL_COLUMNS ==
  <<"T", "P", "X", "Y", "Z", "A", "B", "C", "U", "V", "W",
    "D", "I", "J", "Q", "R", "STL", "COLOR">>

AllColumnSet == {ALL_COLUMNS[i] : i \in DOMAIN ALL_COLUMNS}

\* columns whose values are text in every record the plugin builds
TextColumns == {"R", "STL", "COLOR"}

DEFAULT_TOOL ==
  [A |-> 0, B |-> 0, C |-> 0, D |-> 0, I |-> 0, J |-> 0, P |-> 0, Q |-> 1,
   T |-> -1, U |-> 0, V |-> 0, W |-> 0, X |-> 0, Y |-> 0, Z |-> 0,
   R |-> <<>>, STL |-> <<>>, COLOR |-> <<>>]

merge(a, b) == [k \in DOMAIN a |-> IF k \in DOMAIN b THEN b[k] ELSE a[k]]

NoToolRemark ==
  <<"N","o"," ","T","o","o","l"," ","L","o","a","d","e","d">>

NO_TOOL == merge(DEFAULT_TOOL, [T |-> 0, R |-> NoToolRemark])

COLUMN_LABELS ==
  [A |-> <<"A"," ","O","f","f","s","e","t">>,
   B |-> <<"B"," ","O","f","f","s","e","t">>,
   C |-> <<"C"," ","O","f","f","s","e","t">>,
   D |-> <<"D","i","a","m","e","t","e","r">>,
   I |-> <<"F","n","t"," ","A","n","g">>,
   J |-> <<"B","a","k"," ","A","n","g">>,
   P |-> <<"P","o","c","k","e","t">>,
   Q |-> <<"O","r","i","e","n","t">>,
   R |-> <<"R","e","m","a","r","k">>,
   T |-> <<"T","o","o","l">>,
   U |-> <<"U"," ","O","f","f","s","e","t">>,
   V |-> <<"V"," ","O","f","f","s","e","t">>,
   W |-> <<"W"," ","O","f","f","s","e","t">>,
   X |-> <<"X"," ","O","f","f","s","e","t">>,
   Y |-> <<"Y"," ","O","f","f","s","e","t">>,
   Z |-> <<"Z"," ","O","f","f","s","e","t">>,
   STL |-> <<"T","o","o","l"," ","S","T","L"," ","M","o","d","e","l">>,
   COLOR |-> <<"T","o","o","l"," ","P","a","t","h"," ","C","o","l","o","r">>]

(***************************************************************************)
(* Characters and string primitives of the Python runtime                  *)
(***************************************************************************)
DigitChars == <<"0", "1", "2", "3", "4", "5", "6", "7", "8", "9">>
DigitSet == {DigitChars[i] : i \in DOMAIN DigitChars}
UpperSet ==
  {"A","B","C","D","E","F","G","H","I","J","K","L","M",
   "N","O","P","Q","R","S","T","U","V","W","X","Y","Z"}
ValueCharSet == DigitSet \cup {".", "+", "-"}

DigitVal(c) == (CHOOSE i \in DOMAIN DigitChars : DigitChars[i] = c) - 1

Abs(n) == IF n < 0 THEN -n ELSE n

RECURSIVE NatToStr(_)
NatToStr(n) ==
  IF n < 10 THEN <<DigitChars[n + 1]>>
  ELSE NatToStr(n \div 10) \o <<DigitChars[(n % 10) + 1]>>

\* str(int)
IntToStr(n) == IF n < 0 THEN <<"-">> \o NatToStr(-n) ELSE NatToStr(n)

Spaces(n) == [i \in 1..n |-> " "]

\* '{:<w}': left-justified, padded with spaces, never truncated
PadRight(s, w) == IF Len(s) >= w THEN s ELSE s \o Spaces(w - Len(s))

\* digits of n left-padded with zeros to w places
ZeroPad(n, w) ==
  LET d == NatToStr(n)
  IN IF Len(d) >= w THEN d ELSE [i \in 1..(w - Len(d)) |-> "0"] \o d

RECURSIVE LStrip(_)
LStrip(s) ==
  IF s # <<>> /\ Head(s) = " " THEN LStrip(Tail(s)) ELSE s

RECURSIVE RStrip(_)
RStrip(s) ==
  IF s # <<>> /\ s[Len(s)] = " " THEN RStrip(SubSeq(s, 1, Len(s) - 1)) ELSE s

\* str.strip()
Strip(s) == RStrip(LStrip(s))

\* str.startswith(p)
StartsWith(s, p) == Len(s) >= Len(p) /\ SubSeq(s, 1, Len(p)) = p

\* str.replace(' ', '')
RemoveSpaces(s) == SelectSeq(s, LAMBDA c : c # " ")

\* s.partition(c): text before the first c, and text after it
\* (both parts; the second is empty when c is absent)
Partition(s, c) ==
  IF \E i \in 1..Len(s) : s[i] = c
  THEN LET i == CHOOSE k \in 1..Len(s) :
                  s[k] = c /\ \A m \in 1..(k - 1) : s[m] # c
       IN <<SubSeq(s, 1, i - 1), SubSeq(s, i + 1, Len(s))>>
  ELSE <<s, <<>>>>

\* '\n'.join / ' '.join
RECURSIVE Join(_, _)
Join(parts, sep) ==
  IF parts = <<>> THEN <<>>
  ELSE IF Len(parts) = 1 THEN parts[1]
  ELSE parts[1] \o sep \o Join(Tail(parts), sep)

RECURSIVE Concat(_)
Concat(parts) ==
  IF parts = <<>> THEN <<>> ELSE Head(parts) \o Concat(Tail(parts))

(***************************************************************************)
(* Numeric coercion: int(value) and float(value)                           *)
(***************************************************************************)
ParseFail == [ok |-> FALSE, v |-> 0]

AllDigits(s) == \A i \in 1..Len(s) : s[i] \in DigitSet

RECURSIVE DigitsToNat(_)
DigitsToNat(s) ==
  IF s = <<>> THEN 0
  ELSE DigitsToNat(SubSeq(s, 1, Len(s) - 1)) * 10 + DigitVal(s[Len(s)])

HasSign(s) == s # <<>> /\ s[1] \in {"+", "-"}
Unsigned(s) == IF HasSign(s) THEN Tail(s) ELSE s
SignOf(s) == IF s # <<>> /\ s[1] = "-" THEN -1 ELSE 1

\* int(value): an optional sign and at least one digit, nothing else
ParseInt(s) ==
  LET body == Unsigned(s)
  IN IF body # <<>> /\ AllDigits(body)
     THEN [ok |-> TRUE, v |-> SignOf(s) * DigitsToNat(body)]
     ELSE ParseFail

\* the first (FLOAT_DECIMAL_PLACES + 1) decimals of a fraction, in ticks
FractionTicks(frac) ==
  LET w == FLOAT_DECIMAL_PLACES + 1
      kept == IF Len(frac) > w THEN SubSeq(frac, 1, w) ELSE frac
  IN DigitsToNat(kept \o [i \in 1..(w - Len(kept)) |-> "0"])

\* float(value): an optional sign, digits with at most one point among
\* them, at least one digit
ParseFloat(s) ==
  LET body == Unsigned(s)
      parts == Partition(body, ".")
      whole == parts[1]
      frac == parts[2]
  IN IF AllDigits(whole) /\ AllDigits(frac) /\ Len(whole) + Len(frac) > 0
     THEN [ok |-> TRUE,
           v |-> SignOf(s) * (DigitsToNat(whole) * TicksPerUnit
                              + FractionTicks(frac))]
     ELSE ParseFail

(***************************************************************************)
(* re.findall(r"([A-Z]+[0-9.+-]+)", data): each match is a maximal run of  *)
(* upper-case letters directly followed by a maximal run of value          *)
(* characters                                                              *)
(***************************************************************************)
RECURSIVE RunEnd(_, _, _)
\* the first index >= i whose character is outside set (Len(s) + 1 if none)
RunEnd(s, i, set) ==
  IF i <= Len(s) /\ s[i] \in set THEN RunEnd(s, i + 1, set) ELSE i

RECURSIVE FindItems(_, _)
FindItems(s, i) ==
  IF i > Len(s) THEN <<>>
  ELSE IF s[i] \in UpperSet
  THEN LET j == RunEnd(s, i, UpperSet)
           k == RunEnd(s, j, ValueCharSet)
       IN IF k > j
          THEN <<SubSeq(s, i, k - 1)>> \o FindItems(s, k)
          ELSE FindItems(s, j)
  ELSE FindItems(s, i + 1)

(***************************************************************************)
(* Decoding one row of the file (the body of the loop of loadToolTable)    *)
(***************************************************************************)
IntColumns == {"T", "P", "Q"}

RECURSIVE ApplyItemsSkipping(_, _)
\* a loop that skips a value that fails coercion and goes on with the row
ApplyItemsSkipping(tool, items) ==
  IF items = <<>> THEN tool
  ELSE LET item == Head(items)
           descriptor == item[1]
           value == Tail(item)
       IN IF descriptor \in AllColumnSet
          THEN LET r == IF descriptor \in IntColumns
                        THEN ParseInt(value) ELSE ParseFloat(value)
               IN IF r.ok
                  THEN ApplyItemsSkipping([tool EXCEPT ![descriptor] = r.v],
                                          Tail(items))
                  ELSE ApplyItemsSkipping(tool, Tail(items))
          ELSE ApplyItemsSkipping(tool, Tail(items))

RECURSIVE ApplyItems(_, _)
\* the loop over the items of one row; a failed coercion breaks out of it
ApplyItems(tool, items) ==
  IF items = <<>> THEN tool
  ELSE LET item == Head(items)
           descriptor == item[1]
           value == Tail(item)
       IN IF descriptor \in AllColumnSet
          THEN LET r == IF descriptor \in IntColumns
                        THEN ParseInt(value) ELSE ParseFloat(value)
               IN IF r.ok
                  THEN ApplyItems([tool EXCEPT ![descriptor] = r.v],
                                  Tail(items))
                  ELSE tool
          ELSE ApplyItems(tool, Tail(items))

DecodeRow(line) ==
  LET parts == Partition(line, ";")
      items == FindItems(RemoveSpaces(parts[1]), 1)
      tool == ApplyItems(DEFAULT_TOOL, items)
  IN [tool EXCEPT !.R = Strip(parts[2])]

RECURSIVE DecodeRowsFirstWins(_, _)
\* an accumulation that keeps the first row of a tool number
DecodeRowsFirstWins(table, rows) ==
  IF rows = <<>> THEN table
  ELSE LET tool == DecodeRow(Head(rows))
           tnum == tool.T
       IN IF tnum = -1 \/ (tnum # 0 /\ tnum \in DOMAIN table)
          THEN DecodeRowsFirstWins(table, Tail(rows))
          ELSE DecodeRowsFirstWins(
                 [k \in DOMAIN table \cup {tnum} |->
                    IF k = tnum THEN tool ELSE table[k]],
                 Tail(rows))

RECURSIVE DecodeRows(_, _)
\* rows accumulate into the table by tool number; T = -1 is skipped
DecodeRows(table, rows) ==
  IF rows = <<>> THEN table
  ELSE LET tool == DecodeRow(Head(rows))
           tnum == tool.T
       IN IF tnum = -1
          THEN DecodeRows(table, Tail(rows))
          ELSE DecodeRows(
                 [k \in DOMAIN table \cup {tnum} |->
                    IF k = tnum THEN tool ELSE table[k]],
                 Tail(rows))

(***************************************************************************)
(* Header capture of loadToolTable                                         *)
(***************************************************************************)
Separator == <<"-", "-", "-">>
ToolTitlePrefix == <<";", "T", "o", "o", "l">>

\* index of the last line that starts with ';', 0 when there is none
LastMarker(lines) ==
  IF \E i \in 1..Len(lines) : StartsWith(lines[i], <<";">>)
  THEN CHOOSE i \in 1..Len(lines) :
         /\ StartsWith(lines[i], <<";">>)
         /\ \A m \in (i + 1)..Len(lines) : ~StartsWith(lines[m], <<";">>)
  ELSE 0

RECURSIVE TakeHeader(_)
\* itertools.takewhile over raw_header
TakeHeader(raw) ==
  IF raw = <<>> THEN <<>>
  ELSE IF Strip(Head(raw)) # Separator /\ ~StartsWith(Head(raw), ToolTitlePrefix)
  THEN <<Head(raw)>> \o TakeHeader(Tail(raw))
  ELSE <<>>

StripLines(raw) == [i \in 1..Len(raw) |-> Strip(raw[i])]

\* what loadToolTable derives from the text of an existing file: the header
\* it keeps (old_header when the file has no ';' line) and the table
SplitAt(lines, lnum, old_header) ==
  [header |-> IF lnum > 0 THEN TakeHeader(SubSeq(lines, 1, lnum))
              ELSE old_header,
   table |-> DecodeRows((0 :> NO_TOOL),
                        SubSeq(lines, lnum + 1, Len(lines)))]

DecodeLines(lines, old_header) ==
  SplitAt(lines, LastMarker(lines), old_header)

DecodeFile(raw, old_header) == DecodeLines(StripLines(raw), old_header)

(***************************************************************************)
(* Encoding: the text saveToolTable builds                                 *)
(***************************************************************************)
\* round half away from zero to FLOAT_DECIMAL_PLACES decimals, in steps
Round6(v) == (Abs(v) + (TicksPerStep \div 2)) \div TicksPerStep

\* the value a float column holds after it was written and read back
Rounded(v) == (IF v < 0 THEN -1 ELSE 1) * Round6(v) * TicksPerStep

\* '{col}{val:<{w}}'
FormatInt(col, val) == <<col>> \o PadRight(IntToStr(val), INT_COLUMN_WIDTH)

\* '{col}{val:<+{w}.{d}f}'
FormatFloat(col, val) ==
  LET r == Round6(val)
      text == <<IF val < 0 THEN "-" ELSE "+">>
              \o NatToStr(r \div StepsPerUnit) \o <<".">>
              \o ZeroPad(r % StepsPerUnit, FLOAT_DECIMAL_PLACES)
  IN <<col>> \o PadRight(text, FLOAT_COLUMN_WIDTH)

\* col in 'TPQ' (a substring test)
InTPQ(col) == col \in {"T", "P", "Q", "TP", "PQ", "TPQ"}

\* the 'f' format code raises ValueError for a text value
RowRaises(columns) ==
  \E i \in 1..Len(columns) :
    columns[i] # "R" /\ ~InTPQ(columns[i]) /\ columns[i] \in TextColumns

RECURSIVE RowItems(_, _)
RowItems(tool_data, columns) ==
  IF columns = <<>> THEN <<>>
  ELSE LET col == Head(columns)
           rest == RowItems(tool_data, Tail(columns))
       IN IF col = "R" THEN rest
          ELSE IF InTPQ(col)
          THEN <<FormatInt(col, tool_data[col])>> \o rest
          ELSE <<FormatFloat(col, tool_data[col])>> \o rest

EncodeRow(tool_data, columns) ==
  LET items == RowItems(tool_data, columns)
      comment == tool_data.R
  IN Concat(IF comment # <<>>
            THEN items \o <<<<";", " ">> \o comment>>
            ELSE items)

RECURSIVE TitleItems(_, _)
TitleItems(columns, first) ==
  IF columns = <<>> THEN <<>>
  ELSE LET col == Head(columns)
           rest == TitleItems(Tail(columns), first)
           w == (IF InTPQ(col) THEN INT_COLUMN_WIDTH ELSE FLOAT_COLUMN_WIDTH)
                - (IF col = first THEN 1 ELSE 0)
       IN IF col = "R" THEN rest
          ELSE <<PadRight(COLUMN_LABELS[col], w)>> \o rest

\* the column-title line; first is self.columns[0]
TitleLine(columns, first) ==
  <<";">> \o Join(TitleItems(columns, first)
                  \o <<COLUMN_LABELS["R"]>>, <<" ">>)

RECURSIVE SortedKeys(_)
\* sorted(tool_table.iterkeys())
SortedKeys(keys) ==
  IF keys = {} THEN <<>>
  ELSE LET m == CHOOSE k \in keys : \A j \in keys : k <= j
       IN <<m>> \o SortedKeys(keys \ {m})

\* sorted(tool_table.iterkeys())[1:]
SavedToolNumbers(tool_table) ==
  LET ks == SortedKeys(DOMAIN tool_table)
  IN IF ks = <<>> THEN <<>> ELSE Tail(ks)

\* header_lines.index('---'), 0 when it raises ValueError
IndexOfSeparator(header_lines) ==
  IF \E i \in 1..Len(header_lines) : header_lines[i] = Separator
  THEN CHOOSE i \in 1..Len(header_lines) :
         /\ header_lines[i] = Separator
         /\ \A m \in 1..(i - 1) : header_lines[m] # Separator
  ELSE 0

\* header_lines made from the template: its lines and an empty line;
\* nothing when the template is empty or its format() raises
TemplateLines(template) ==
  IF template.lines # <<>> /\ template.formats
  THEN template.lines \o << <<>> >>
  ELSE <<>>

\* self.orig_header_lines after the header was restored: extended in place
\* by the template's lines from its '---' on
ExtendedHeader(orig_header, template) ==
  LET header_lines == TemplateLines(template)
      at == IndexOfSeparator(header_lines)
  IN IF orig_header # <<>> /\ at > 0
     THEN orig_header \o SubSeq(header_lines, at, Len(header_lines))
     ELSE orig_header

\* the header lines written to the file
WrittenHeader(orig_header, template) ==
  IF orig_header # <<>> THEN ExtendedHeader(orig_header, template)
  ELSE TemplateLines(template)

\* the lines saveToolTable writes; ok is FALSE when building a row raises
EncodeFile(tool_table, columns, first, orig_header, template) ==
  LET nums == SavedToolNumbers(tool_table)
  IN IF nums # <<>> /\ RowRaises(columns)
     THEN [ok |-> FALSE, lines |-> <<>>]
     ELSE [ok |-> TRUE,
           lines |-> WrittenHeader(orig_header, template)
                     \o <<TitleLine(columns, first)>>
                     \o [i \in 1..Len(nums) |->
                           EncodeRow(tool_table[nums[i]], columns)]]

(***************************************************************************)
(* validateColumns: each entry stripped and upper-cased, kept when it      *)
(* names a column.  A specification is given as its entries, each a        *)
(* sequence of characters; given = FALSE stands for a value that is not a  *)
(* string, list or tuple (None).                                           *)
(***************************************************************************)
LowerChars ==
  <<"a","b","c","d","e","f","g","h","i","j","k","l","m",
    "n","o","p","q","r","s","t","u","v","w","x","y","z">>
UpperChars ==
  <<"A","B","C","D","E","F","G","H","I","J","K","L","M",
    "N","O","P","Q","R","S","T","U","V","W","X","Y","Z">>

UpperChar(c) ==
  IF \E i \in DOMAIN LowerChars : LowerChars[i] = c
  THEN UpperChars[CHOOSE i \in DOMAIN LowerChars : LowerChars[i] = c]
  ELSE c

\* str.upper()
Upper(s) == [i \in 1..Len(s) |-> UpperChar(s[i])]

ColumnChars ==
  [T |-> <<"T">>, P |-> <<"P">>, X |-> <<"X">>, Y |-> <<"Y">>, Z |-> <<"Z">>,
   A |-> <<"A">>, B |-> <<"B">>, C |-> <<"C">>, U |-> <<"U">>, V |-> <<"V">>,
   W |-> <<"W">>, D |-> <<"D">>, I |-> <<"I">>, J |-> <<"J">>, Q |-> <<"Q">>,
   R |-> <<"R">>, STL |-> <<"S","T","L">>,
   COLOR |-> <<"C","O","L","O","R">>]

NoColumns == [given |-> FALSE, items |-> <<>>]
ColumnSpec(items) == [given |-> TRUE, items |-> items]

RECURSIVE ValidNames(_)
ValidNames(items) ==
  IF items = <<>> THEN <<>>
  ELSE LET col == Upper(Strip(Head(items)))
           rest == ValidNames(Tail(items))
       IN IF \E n \in AllColumnSet : ColumnChars[n] = col
          THEN <<CHOOSE n \in AllColumnSet : ColumnChars[n] = col>> \o rest
          ELSE rest

\* the list validateColumns returns; <<>> also stands for None
validateColumns(spec) == IF spec.given THEN ValidNames(spec.items) ELSE <<>>

\* validateColumns(columns) or fallback
OrElse(value, fallback) == IF value # <<>> THEN value ELSE fallback
ColumnsOr(spec, fallback) == OrElse(validateColumns(spec), fallback)

(***************************************************************************)
(* Bounds and the inputs drawn from the environment                        *)
(***************************************************************************)
\* tool numbers the controller may report in the spindle: 0..MaxTool
MaxTool == 1
\* pending file-change signals, and pending debounce timers, at most
MaxPending == 1
\* saveToolTable is not called once the kept header has more lines
MaxHeaderLines == 1

ToolNumbers == 0..MaxTool

NoFile == [exists |-> FALSE, lines |-> <<>>]
FileOf(lines) == [exists |-> TRUE, lines |-> lines]

\* a file with a header line, an end mill and a second tool
FileBasic ==
  <<<<"m","y"," ","t","o","o","l","s">>,
    <<";">>,
    <<"T","1"," ","P","1"," ","Z","-","1",".","5"," ",";","e","n","d"," ","m","i","l","l">>,
    <<"T","2"," ","P","2"," ","D","+","0",".","2","5","0","0","0","0">>>>

\* a file whose first row has tool number 0, and without tool 1
FileT0 ==
  <<<<";">>,
    <<"T","0"," ","P","0"," ",";","s","p","a","r","e">>,
    <<" ","T","2"," ","P","3"," ","D","0",".","5"," ",";"," ","d","r","i","l","l"," ">>>>

SampleFiles == {FileBasic, FileT0}

ToolA == [DEFAULT_TOOL EXCEPT !.T = 1, !.P = 1, !.Z = -15000004,
                              !.R = <<"e","n","d"," ","m","i","l","l">>]
ToolB == [DEFAULT_TOOL EXCEPT !.T = 2, !.P = 2, !.D = 5000006]

\* a table a caller builds from records of newTool and saves
TableAB == (0 :> NO_TOOL) @@ (1 :> ToolA) @@ (2 :> ToolB)

ColumnsPTDZR == ColumnSpec(<<<<"P">>, <<"T">>, <<"D">>, <<"Z">>, <<"R">>>>)
ColumnsLower == ColumnSpec(<<<<"t">>, <<" ">>, <<"z">>, <<"d">>>>)
ColumnsAll ==
  ColumnSpec([i \in DOMAIN ALL_COLUMNS |-> ColumnChars[ALL_COLUMNS[i]]])


\* file_header_template after format(): its lines, and whether format()
\* returned (it raises on a stray brace)
NoTemplate == [lines |-> <<>>, formats |-> TRUE]
TemplateSep ==
  [lines |-> <<<<"T","o","o","l"," ","T","a","b","l","e">>, <<"-","-","-">>, <<"G","e","n","e","r","a","t","e","d">>>>, formats |-> TRUE]

\* the constructor's arguments: columns and file_header_template
Configs ==
  {<<ColumnsAll, NoTemplate>>, <<ColumnsPTDZR, NoTemplate>>,
   <<ColumnsLower, TemplateSep>>}

(***************************************************************************)
(* Database plugin: records, rows and the changeset                        *)
(*                                                                         *)
(* A value carries its Python type, which DeepDiff compares before the     *)
(* value: ty is "int", "float", "str" or "none"; n is the number, s the    *)
(* text.                                                                   *)
(***************************************************************************)
PyInt(n) == [ty |-> "int", n |-> n, s |-> ""]
PyFloat(n) == [ty |-> "float", n |-> n, s |-> ""]
PyStr(s) == [ty |-> "str", n |-> 0, s |-> s]
PyNone == [ty |-> "none", n |-> 0, s |-> ""]

\* a == b in Python: numbers compare by value whatever their type
PyEq(a, b) ==
  IF a.ty \in {"int", "float"} /\ b.ty \in {"int", "float"}
  THEN a.n = b.n
  ELSE a = b

DB_DEFAULT_TOOL ==
  [A |-> PyFloat(0), B |-> PyFloat(0), C |-> PyFloat(0), D |-> PyFloat(0),
   I |-> PyFloat(0), J |-> PyFloat(0), P |-> PyInt(0), Q |-> PyInt(1),
   T |-> PyInt(-1), U |-> PyFloat(0), V |-> PyFloat(0), W |-> PyFloat(0),
   X |-> PyFloat(0), Y |-> PyFloat(0), Z |-> PyFloat(0), R |-> PyStr("")]

DBFields == DOMAIN DB_DEFAULT_TOOL

\* Tool(remark=..., tool_no=..., ...): the row saveToolTable inserts for a
\* record, and the fields it assigns on an update
RowOf(temp_tool) ==
  [remark |-> temp_tool.R, tool_no |-> temp_tool.T, in_use |-> FALSE,
   pocket |-> temp_tool.P, x_offset |-> temp_tool.X,
   y_offset |-> temp_tool.Y, z_offset |-> temp_tool.Z,
   a_offset |-> temp_tool.A, b_offset |-> temp_tool.B,
   c_offset |-> temp_tool.C, i_offset |-> temp_tool.I,
   j_offset |-> temp_tool.J, q_offset |-> temp_tool.Q,
   u_offset |-> temp_tool.U, v_offset |-> temp_tool.V,
   w_offset |-> temp_tool.W, diameter |-> temp_tool.D,
   tool_table_id |-> 1]

\* the record loadToolTable builds from a row
LoadedRecord(tool) ==
  [A |-> tool.a_offset, B |-> tool.b_offset, C |-> tool.b_offset,
   D |-> tool.diameter, I |-> PyFloat(0), J |-> PyFloat(0),
   P |-> tool.pocket, Q |-> PyInt(1), R |-> tool.remark,
   T |-> tool.tool_no, U |-> tool.u_offset, V |-> tool.v_offset,
   W |-> tool.w_offset, X |-> tool.x_offset, Y |-> tool.y_offset,
   Z |-> tool.z_offset]

\* the record saveToolTable builds from a row for the comparison
SnapshotRecord(tool) ==
  [R |-> tool.remark, T |-> tool.tool_no, P |-> tool.pocket,
   X |-> tool.x_offset, Y |-> tool.y_offset, Z |-> tool.z_offset,
   A |-> tool.a_offset, B |-> tool.b_offset, C |-> tool.c_offset,
   U |-> tool.u_offset, V |-> tool.v_offset, W |-> tool.w_offset,
   Q |-> PyInt(1), I |-> PyFloat(0), J |-> PyFloat(0),
   D |-> tool.diameter]

\* new_tool_dict: the persisted snapshot, keyed by tool_no
Snapshot(rows) == [k \in DOMAIN rows |-> SnapshotRecord(rows[k])]

\* DeepDiff reports a leaf under values_changed when both values have the
\* same type and differ, and under type_changes when the types differ
ValuesChanged(a, b) == a.ty = b.ty /\ a # b

\* diff.get("dictionary_item_added"): the tool numbers
ToInsert(persisted, desired) == DOMAIN desired \ DOMAIN persisted
\* diff.get("dictionary_item_removed")
ToDelete(persisted, desired) == DOMAIN persisted \ DOMAIN desired
\* diff.get("values_changed"): the tool numbers of the changed leaves
ToUpdate(persisted, desired) ==
  {k \in DOMAIN persisted \cap DOMAIN desired :
     \E f \in DBFields : ValuesChanged(persisted[k][f], desired[k][f])}

\* the changeset, each part in ascending order of tool number
Changeset(persisted, desired) ==
  [ins |-> SortedKeys(ToInsert(persisted, desired)),
   upd |-> SortedKeys(ToUpdate(persisted, desired)),
   del |-> SortedKeys(ToDelete(persisted, desired))]

NoChanges == [ins |-> <<>>, upd |-> <<>>, del |-> <<>>]

\* the table loadToolTable leaves: one entry set per row, nothing removed
LoadedTable(table, rows) ==
  [k \in DOMAIN table \cup DOMAIN rows |->
     IF k \in DOMAIN rows THEN LoadedRecord(rows[k]) ELSE table[k]]

\* session.add(tool); a row is found again by its tool_no
Put(rows, row) ==
  [k \in DOMAIN rows \cup {row.tool_no.n} |->
     IF k = row.tool_no.n THEN row ELSE rows[k]]

\* session.delete(tool_row)
Remove(rows, k) == [j \in DOMAIN rows \ {k} |-> rows[j]]

DBTool(t) == [DB_DEFAULT_TOOL EXCEPT !.T = PyInt(t), !.P = PyInt(t)]

EmptyRows == [k \in {} |-> RowOf(DB_DEFAULT_TOOL)]
EmptyDBTable == [k \in {} |-> DB_DEFAULT_TOOL]

\* the store the plugin finds: empty, or holding tools 1, 2 and 3
Rows123 == [k \in {1, 2, 3} |-> RowOf(DBTool(k))]
InitialStores == {EmptyRows, Rows123}

\* desired tables: tools 2 (Z changed), 3 and 4
Desired234 ==
  (2 :> [DBTool(2) EXCEPT !.Z = PyFloat(5)]) @@ (3 :> DBTool(3))
  @@ (4 :> DBTool(4))
\* tools 1, 2, 3 with X of tool 1 now the integer 1 (it was 0.0)
DesiredTyped ==
  (1 :> [DBTool(1) EXCEPT !.X = PyInt(1)]) @@ (2 :> DBTool(2))
  @@ (3 :> DBTool(3))
\* tools 1, 2, 3 with C and Q of tool 1 set
DesiredCQ ==
  (1 :> [DBTool(1) EXCEPT !.C = PyFloat(5), !.Q = PyInt(3)])
  @@ (2 :> DBTool(2)) @@ (3 :> DBTool(3))
\* tools 1, 2, 3 as the store first holds them
Desired123 == [k \in {1, 2, 3} |-> DBTool(k)]

DesiredTables == {Desired234, DesiredTyped, DesiredCQ, Desired123}

(***************************************************************************)
(* State                                                                   *)
(***************************************************************************)
VARIABLES
  plugin,             \* which plugin provides the tool table: "file" | "db"
  file,               \* the tool table file on disk
  TOOL_TABLE,         \* ToolTable.TOOL_TABLE
  orig_header_lines,  \* self.orig_header_lines
  columns,            \* self.columns
  template,           \* self.file_header_template
  tool_in_spindle,    \* STAT.tool_in_spindle
  chan,               \* value of the current_tool channel
  notify_registered,  \* the STATUS notifications of __init__ are connected
  initialised,        \* initialise() has run
  watched,            \* tool_table_file in fs_watcher.files()
  changes,            \* fileChanged signals not yet delivered
  timers,             \* debounce timers not yet fired
  lcnc_pending,       \* the controller reloaded its table; notify not yet delivered
  store,              \* the rows of the Tool table in the database, by tool_no
  db_table,           \* DBToolTable.table
  db_session,         \* initialise() has opened self.session
  db_pc,              \* position in saveToolTable: "idle" | "apply"
  db_snapshot,        \* new_tool_dict of the running saveToolTable
  db_todo,            \* the part of the changeset not yet applied
  tool_data_is_row,   \* the name tool_data is bound to a row, not the query
  db_interfered,      \* another process changed the store during the save
  remember_tool_in_spindle,  \* self.remember_tool_in_spindle
  all_axes_homed,     \* STATUS.all_axes_homed.value
  enabled,            \* STATUS.enabled.value
  remembered,         \* the persistent data manager's 'tool-in-spindle'
  mdi_timers,         \* tool numbers of the deferred MDI commands not yet fired
  mdi,                \* the last MDI command issued, and the status it met
  terminated,         \* terminate() has run
  last                \* the last call: its name, arguments, result and effects

fileVars ==
  <<file, TOOL_TABLE, orig_header_lines, columns, template, tool_in_spindle,
    chan, notify_registered, initialised, watched, changes, timers,
    lcnc_pending>>

dbVars ==
  <<store, db_table, db_session, db_pc, db_snapshot, db_todo,
    tool_data_is_row, db_interfered>>

recVars ==
  <<remember_tool_in_spindle, all_axes_homed, enabled, remembered,
    mdi_timers, mdi, terminated>>

NoError == "none"
EmptyTable == [k \in {} |-> DEFAULT_TOOL]
NoReply == [ok |-> FALSE, tool |-> DEFAULT_TOOL]
NoArgs == [table |-> EmptyTable, columns |-> <<>>]

\* The record of a call.  replaced: it assigned the in-memory table;
\* emits, event: how often it emitted tool_table_changed, and the table
\* the last emission carried; after_save: a save completed and nothing but
\* the callbacks it triggers has run since.
Call(op, error, replaced, emits, event, after) ==
  [op |-> op, error |-> error, replaced |-> replaced, emits |-> emits,
   event |-> event, after_save |-> after, args |-> NoArgs,
   result |-> NoReply]

\* a step of the environment, or a handler that touches neither table
\* nor events
Quiet(op, after) == Call(op, NoError, FALSE, 0, EmptyTable, after)

(***************************************************************************)
(* ToolTable.loadToolTable                                                 *)
(***************************************************************************)
\* What one call does to the plugin: the table and header it leaves, the
\* channel value, the events it emits, the table it returns and the error
\* it raises.  The table is assigned before the channel is set, so the
\* KeyError of a spindle tool that is not in the new table leaves the new
\* table in place, the channel stale and the event not emitted.
Installed(d, tis, ch) ==
  IF tis \in DOMAIN d.table
  THEN [table |-> d.table, header |-> d.header, chan |-> d.table[tis],
        replaced |-> TRUE, emits |-> 1, returned |-> d.table,
        error |-> NoError]
  ELSE [table |-> d.table, header |-> d.header, chan |-> ch,
        replaced |-> TRUE, emits |-> 0, returned |-> EmptyTable,
        error |-> "KeyError"]

LoadOutcome(f, table, header, tis, ch) ==
  IF ~f.exists
  THEN [table |-> table, header |-> header, chan |-> ch, replaced |-> FALSE,
        emits |-> 0, returned |-> EmptyTable, error |-> NoError]
  ELSE Installed(DecodeFile(f.lines, header), tis, ch)

\* the state after ToolTable.__init__ for a file and a spindle tool
Constructed(f, tis) ==
  LoadOutcome(f, (0 :> NO_TOOL), <<>>, tis, NO_TOOL)

\* loadToolTable run as the handler op
LoadApplied(op, o) ==
  /\ TOOL_TABLE' = o.table
  /\ orig_header_lines' = o.header
  /\ chan' = o.chan
  /\ last' = Call(op, o.error, o.replaced, o.emits,
                  IF o.emits > 0 THEN o.table ELSE EmptyTable,
                  last.after_save)

LoadStep(op) ==
  LoadApplied(op, LoadOutcome(file, TOOL_TABLE, orig_header_lines,
                              tool_in_spindle, chan))

\* reloadToolTable: re-watch, load, emit the returned table
ReloadApplied(op, after, o) ==
  /\ watched' = (watched \/ file.exists)
  /\ TOOL_TABLE' = o.table
  /\ orig_header_lines' = o.header
  /\ chan' = o.chan
  /\ last' = Call(op, o.error, o.replaced,
                  IF o.error = NoError THEN o.emits + 1 ELSE o.emits,
                  o.returned, after)

ReloadStep(op, after) ==
  ReloadApplied(op, after,
                LoadOutcome(file, TOOL_TABLE, orig_header_lines,
                            tool_in_spindle, chan))

(***************************************************************************)
(* File plugin: handlers and environment                                   *)
(***************************************************************************)
Bump(n) == IF n < MaxPending THEN n + 1 ELSE n

\* initialise(): the watcher is created; addPath fails on a missing file
Initialise ==
  /\ plugin = "file"
  /\ ~initialised
  /\ initialised' = TRUE
  /\ watched' = file.exists
  /\ last' = Quiet("idle", FALSE)
  /\ UNCHANGED <<plugin, recVars, dbVars, file, TOOL_TABLE, orig_header_lines, columns,
                 template, tool_in_spindle, chan, notify_registered, changes,
                 timers, lcnc_pending>>

\* another process rewrites the file
ExternalWrite(lines) ==
  /\ plugin = "file"
  /\ file # FileOf(lines)
  /\ file' = FileOf(lines)
  /\ changes' = IF watched THEN Bump(changes) ELSE changes
  /\ last' = Quiet("idle", FALSE)
  /\ UNCHANGED <<plugin, recVars, dbVars, TOOL_TABLE, orig_header_lines, columns, template,
                 tool_in_spindle, chan, notify_registered, initialised,
                 watched, timers, lcnc_pending>>

\* another process deletes the file; the watcher drops a deleted path
ExternalDelete ==
  /\ plugin = "file"
  /\ file.exists
  /\ file' = NoFile
  /\ changes' = IF watched THEN Bump(changes) ELSE changes
  /\ watched' = FALSE
  /\ last' = Quiet("idle", FALSE)
  /\ UNCHANGED <<plugin, recVars, dbVars, TOOL_TABLE, orig_header_lines, columns, template,
                 tool_in_spindle, chan, notify_registered, initialised,
                 timers, lcnc_pending>>

\* onToolTableFileChanged: start the 50 ms timer
OnToolTableFileChanged ==
  /\ plugin = "file"
  /\ initialised
  /\ changes > 0
  /\ changes' = changes - 1
  /\ timers' = Bump(timers)
  /\ last' = Quiet("idle", last.after_save)
  /\ UNCHANGED <<plugin, recVars, dbVars, file, TOOL_TABLE, orig_header_lines, columns,
                 template, tool_in_spindle, chan, notify_registered,
                 initialised, watched, lcnc_pending>>

\* the debounce timer fires: reloadToolTable
DebounceTimerFires ==
  /\ plugin = "file"
  /\ timers > 0
  /\ timers' = timers - 1
  /\ ReloadStep("timer_reload", last.after_save)
  /\ UNCHANGED <<plugin, recVars, dbVars, file, columns, template, tool_in_spindle,
                 notify_registered, initialised, changes, lcnc_pending>>

\* reloadToolTable() called by a collaborator
ReloadToolTable ==
  /\ plugin = "file"
  /\ initialised
  /\ ReloadStep("reloadToolTable", FALSE)
  /\ UNCHANGED <<plugin, recVars, dbVars, file, columns, template, tool_in_spindle,
                 notify_registered, initialised, changes, timers,
                 lcnc_pending>>

\* STATUS.tool_table notifies: lambda *args: self.loadToolTable()
StatusToolTableNotify ==
  /\ plugin = "file"
  /\ lcnc_pending
  /\ notify_registered
  /\ lcnc_pending' = FALSE
  /\ LoadStep("tool_table_notify")
  /\ UNCHANGED <<plugin, recVars, dbVars, file, columns, template, tool_in_spindle,
                 notify_registered, initialised, watched, changes, timers>>

\* the same signal when __init__ returned before connecting to it
StatusToolTableUnheard ==
  /\ plugin = "file"
  /\ lcnc_pending
  /\ ~notify_registered
  /\ lcnc_pending' = FALSE
  /\ last' = Quiet("idle", last.after_save)
  /\ UNCHANGED <<plugin, recVars, dbVars, file, TOOL_TABLE, orig_header_lines, columns,
                 template, tool_in_spindle, chan, notify_registered,
                 initialised, watched, changes, timers>>

\* setCurrentToolNumber(tool_num)
setCurrentToolNumber(table, tool_num, ch) ==
  IF tool_num \in DOMAIN table
  THEN [chan |-> table[tool_num], error |-> NoError]
  ELSE [chan |-> ch, error |-> "KeyError"]

\* the spindle tool changes; STATUS.tool_in_spindle notifies
\* setCurrentToolNumber when connected
ToolInSpindleChanges(n) ==
  LET r == IF notify_registered
           THEN setCurrentToolNumber(TOOL_TABLE, n, chan)
           ELSE [chan |-> chan, error |-> NoError]
  IN /\ plugin = "file"
     /\ initialised
     /\ n # tool_in_spindle
     /\ tool_in_spindle' = n
     /\ chan' = r.chan
     /\ last' = Call("setCurrentToolNumber", r.error, FALSE, 0, EmptyTable,
                     FALSE)
     /\ UNCHANGED <<plugin, recVars, dbVars, file, TOOL_TABLE, orig_header_lines, columns,
                    template, notify_registered, initialised, watched,
                    changes, timers, lcnc_pending>>

\* a lookup that falls back to the sentinel record for an unknown tool
current_tool_or_sentinel(table, tis) ==
  IF tis \in DOMAIN table
  THEN [ok |-> TRUE, tool |-> table[tis]]
  ELSE [ok |-> TRUE, tool |-> NO_TOOL]

\* current_tool(item=None)
current_tool(table, tis) ==
  IF tis \in DOMAIN table
  THEN [ok |-> TRUE, tool |-> table[tis]]
  ELSE [ok |-> FALSE, tool |-> DEFAULT_TOOL]

QueryCurrentTool ==
  LET r == current_tool(TOOL_TABLE, tool_in_spindle)
  IN /\ plugin = "file"
     /\ last' = [Call("current_tool", IF r.ok THEN NoError ELSE "KeyError",
                      FALSE, 0, EmptyTable, FALSE) EXCEPT !.result = r]
     /\ UNCHANGED <<plugin, recVars, dbVars, fileVars>>

\* saveToolTable(tool_table, columns): the header is restored (extending
\* self.orig_header_lines in place), the rows are built, and only then is
\* the file written and the controller told to reload
SaveApplied(args, enc) ==
  /\ plugin = "file"
  /\ initialised
  /\ Len(orig_header_lines) <= MaxHeaderLines
  /\ orig_header_lines' = ExtendedHeader(orig_header_lines, template)
  /\ IF enc.ok
     THEN /\ file' = FileOf(enc.lines)
          /\ changes' = IF watched THEN Bump(changes) ELSE changes
          /\ lcnc_pending' = TRUE
          /\ last' = [Quiet("saveToolTable", TRUE) EXCEPT !.args = args]
     ELSE /\ last' = [Call("saveToolTable", "ValueError", FALSE, 0,
                           EmptyTable, FALSE) EXCEPT !.args = args]
          /\ UNCHANGED <<file, changes, lcnc_pending>>
  /\ UNCHANGED <<plugin, recVars, dbVars, TOOL_TABLE, columns, template,
                 tool_in_spindle, chan, notify_registered, initialised,
                 watched, timers>>

SaveWith(tool_table, cols) ==
  SaveApplied([table |-> tool_table, columns |-> cols],
              EncodeFile(tool_table, cols, columns[1], orig_header_lines,
                         template))

SaveToolTable(tool_table, spec) ==
  SaveWith(tool_table, ColumnsOr(spec, columns))

\* the tables collaborators save: the current one, or one they built
SaveTables == {TOOL_TABLE, TableAB}
\* the columns argument of saveToolTable
SaveColumns == {NoColumns}

FileNext ==
  \/ Initialise
  \/ \E lines \in SampleFiles : ExternalWrite(lines)
  \/ ExternalDelete
  \/ OnToolTableFileChanged
  \/ DebounceTimerFires
  \/ ReloadToolTable
  \/ StatusToolTableNotify
  \/ StatusToolTableUnheard
  \/ \E n \in ToolNumbers : ToolInSpindleChanges(n)
  \/ QueryCurrentTool
  \/ \E t \in SaveTables, c \in SaveColumns : SaveToolTable(t, c)

\* the state ToolTable.__init__ leaves, for every file it may find and
\* every spindle tool for which it returns
ConstructedAs(o) ==
  /\ o.error = NoError
  /\ TOOL_TABLE = o.table
  /\ orig_header_lines = o.header
  /\ chan = o.chan
  /\ last = Call("__init__", NoError, o.replaced, o.emits, o.returned, FALSE)

FileInit ==
  /\ plugin = "file"
  /\ file \in {NoFile} \cup {FileOf(l) : l \in SampleFiles}
  /\ tool_in_spindle \in ToolNumbers
  /\ ConstructedAs(Constructed(file, tool_in_spindle))
  /\ \E c \in Configs : /\ columns = ColumnsOr(c[1], ALL_COLUMNS)
                         /\ template = c[2]
  /\ notify_registered = file.exists
  /\ initialised = FALSE
  /\ watched = FALSE
  /\ changes = 0
  /\ timers = 0
  /\ lcnc_pending = FALSE

vars == <<plugin, fileVars, dbVars, recVars, last>>

(***************************************************************************)
(* Database plugin: handlers and environment                               *)
(***************************************************************************)
\* loadToolTable: the table is updated in place, row by row, then emitted
DBLoadStep(op) ==
  /\ db_table' = LoadedTable(db_table, store)
  /\ last' = Call(op, NoError, FALSE, 1, LoadedTable(db_table, store), FALSE)

\* initialise(): open the session and load
DBInitialise ==
  /\ plugin = "db"
  /\ ~db_session
  /\ db_session' = TRUE
  /\ DBLoadStep("db_load")
  /\ UNCHANGED <<plugin, recVars, fileVars, store, db_pc, db_snapshot, db_todo,
                 tool_data_is_row, db_interfered>>

\* loadToolTable() called by a collaborator
DBLoadToolTable ==
  /\ plugin = "db"
  /\ db_session
  /\ db_pc = "idle"
  /\ DBLoadStep("db_load")
  /\ UNCHANGED <<plugin, recVars, fileVars, store, db_session, db_pc, db_snapshot,
                 db_todo, tool_data_is_row, db_interfered>>

\* reloadToolTable(): CMD.load_tool_table(), then load
DBReloadToolTable ==
  /\ plugin = "db"
  /\ db_session
  /\ db_pc = "idle"
  /\ lcnc_pending' = TRUE
  /\ DBLoadStep("db_reload")
  /\ UNCHANGED <<plugin, recVars, file, TOOL_TABLE, orig_header_lines, columns,
                 template, tool_in_spindle, chan, notify_registered,
                 initialised, watched, changes, timers, store, db_session,
                 db_pc, db_snapshot, db_todo, tool_data_is_row,
                 db_interfered>>

\* saveToolTable up to the diff: the caller's table becomes self.table, the
\* rows are read and compared with it
DBSaveBegin(tool_table) ==
  /\ plugin = "db"
  /\ db_session
  /\ db_pc = "idle"
  /\ db_table' = tool_table
  /\ db_snapshot' = Snapshot(store)
  /\ db_todo' = Changeset(Snapshot(store), tool_table)
  /\ tool_data_is_row' = FALSE
  /\ db_interfered' = FALSE
  /\ db_pc' = "apply"
  /\ last' = Quiet("db_save_running", FALSE)
  /\ UNCHANGED <<plugin, recVars, fileVars, store, db_session>>

\* the call ends with an exception: nothing is rolled back, the session
\* stays open
DBRaise(error) ==
  /\ db_pc' = "idle"
  /\ db_todo' = NoChanges
  /\ db_snapshot' = EmptyDBTable
  /\ last' = Call("db_save", error, FALSE, 0, EmptyDBTable, FALSE)

\* one pass of the insert loop: add the row and commit
DBInsertRow ==
  /\ plugin = "db"
  /\ db_pc = "apply"
  /\ db_todo.ins # <<>>
  /\ store' = Put(store, RowOf(db_table[Head(db_todo.ins)]))
  /\ db_todo' = [db_todo EXCEPT !.ins = Tail(@)]
  /\ last' = Quiet("db_save_running", FALSE)
  /\ UNCHANGED <<plugin, recVars, fileVars, db_table, db_session, db_pc, db_snapshot,
                 tool_data_is_row, db_interfered>>

\* a lookup that takes whatever it finds and reports nothing when the row
\* is absent
first(rows, k) == "found"

\* Query.filter(Tool.tool_no == k).one(): the row, or NoResultFound
one(rows, k) == IF k \in DOMAIN rows THEN "found" ELSE "NoResultFound"

\* the row an update looks up and rewrites: every field from the record
UpdatedRows(rows, temp_tool) == Put(rows, RowOf(temp_tool))

\* one pass of the update loop: query(...).one() raises NoResultFound when
\* the row is gone; the row found is bound to the name tool_data
DBUpdateRow ==
  LET temp_tool == db_table[Head(db_todo.upd)]
  IN /\ plugin = "db"
     /\ db_pc = "apply"
     /\ db_todo.ins = <<>>
     /\ db_todo.upd # <<>>
     /\ IF one(store, temp_tool.T.n) = "found"
        THEN /\ store' = UpdatedRows(store, temp_tool)
             /\ db_todo' = [db_todo EXCEPT !.upd = Tail(@)]
             /\ tool_data_is_row' = TRUE
             /\ last' = Quiet("db_save_running", FALSE)
             /\ UNCHANGED <<db_pc, db_snapshot>>
        ELSE /\ DBRaise(one(store, temp_tool.T.n))
             /\ UNCHANGED <<store, tool_data_is_row>>
     /\ UNCHANGED <<plugin, recVars, fileVars, db_table, db_session, db_interfered>>

\* one pass of the delete loop: tool_data.filter(...).one() raises
\* AttributeError when an update has rebound tool_data to a row (a row has
\* no filter), NoResultFound when the row is gone
DBDeleteRow ==
  LET k == db_snapshot[Head(db_todo.del)].T.n
  IN /\ plugin = "db"
     /\ db_pc = "apply"
     /\ db_todo.ins = <<>>
     /\ db_todo.upd = <<>>
     /\ db_todo.del # <<>>
     /\ IF tool_data_is_row
        THEN /\ DBRaise("AttributeError")
             /\ UNCHANGED store
        ELSE IF one(store, k) # "found"
        THEN /\ DBRaise(one(store, k))
             /\ UNCHANGED store
        ELSE /\ store' = Remove(store, k)
             /\ db_todo' = [db_todo EXCEPT !.del = Tail(@)]
             /\ last' = Quiet("db_save_running", FALSE)
             /\ UNCHANGED <<db_pc, db_snapshot>>
     /\ UNCHANGED <<plugin, recVars, fileVars, db_table, db_session, tool_data_is_row,
                    db_interfered>>

\* self.session.close(): saveToolTable returns
DBSaveClose ==
  /\ plugin = "db"
  /\ db_pc = "apply"
  /\ db_todo = NoChanges
  /\ db_pc' = "idle"
  /\ db_snapshot' = EmptyDBTable
  /\ last' = Quiet("db_save", FALSE)
  /\ UNCHANGED <<plugin, recVars, fileVars, store, db_table, db_session, db_todo,
                 tool_data_is_row, db_interfered>>

\* another process deletes a row, at any time
DBExternalDelete(k) ==
  /\ plugin = "db"
  /\ k \in DOMAIN store
  /\ store' = Remove(store, k)
  /\ db_interfered' = (db_interfered \/ db_pc # "idle")
  /\ last' = IF db_pc = "idle" THEN Quiet("idle", FALSE) ELSE last
  /\ UNCHANGED <<plugin, recVars, fileVars, db_table, db_session, db_pc, db_snapshot,
                 db_todo, tool_data_is_row>>

\* another process adds a row while no save is running
DBExternalInsert(row) ==
  /\ plugin = "db"
  /\ db_pc = "idle"
  /\ row.tool_no.n \notin DOMAIN store
  /\ store' = Put(store, row)
  /\ last' = Quiet("idle", FALSE)
  /\ UNCHANGED <<plugin, recVars, fileVars, db_table, db_session, db_pc, db_snapshot,
                 db_todo, tool_data_is_row, db_interfered>>

\* the spindle tool changes; the plugin is connected to no notification
DBToolInSpindleChanges(n) ==
  /\ plugin = "db"
  /\ db_pc = "idle"
  /\ n # tool_in_spindle
  /\ tool_in_spindle' = n
  /\ last' = Quiet("idle", FALSE)
  /\ UNCHANGED <<plugin, recVars, file, TOOL_TABLE, orig_header_lines, columns,
                 template, chan, notify_registered, initialised, watched,
                 changes, timers, lcnc_pending, dbVars>>

\* DBToolTable.current_tool(item=None)
db_current_tool(table, tis) ==
  IF tis \in DOMAIN table
  THEN [ok |-> TRUE, tool |-> table[tis]]
  ELSE [ok |-> FALSE, tool |-> DB_DEFAULT_TOOL]

DBQueryCurrentTool ==
  LET r == db_current_tool(db_table, tool_in_spindle)
  IN /\ plugin = "db"
     /\ db_pc = "idle"
     /\ last' = [Call("current_tool", IF r.ok THEN NoError ELSE "KeyError",
                      FALSE, 0, EmptyTable, FALSE) EXCEPT !.result = r]
     /\ UNCHANGED <<plugin, recVars, fileVars, dbVars>>

\* rows another process may add
ExternalRows == {RowOf(DBTool(1))}

DBNext ==
  \/ DBInitialise
  \/ DBLoadToolTable
  \/ DBReloadToolTable
  \/ \E t \in DesiredTables : DBSaveBegin(t)
  \/ DBInsertRow
  \/ DBUpdateRow
  \/ DBDeleteRow
  \/ DBSaveClose
  \/ \E k \in DOMAIN store : DBExternalDelete(k)
  \/ \E row \in ExternalRows : DBExternalInsert(row)
  \/ \E n \in ToolNumbers : DBToolInSpindleChanges(n)
  \/ DBQueryCurrentTool

\* the variables of the plugin that is not configured
FileUnused ==
  /\ file = NoFile
  /\ TOOL_TABLE = (0 :> NO_TOOL)
  /\ orig_header_lines = <<>>
  /\ columns = ALL_COLUMNS
  /\ template = NoTemplate
  /\ chan = NO_TOOL
  /\ notify_registered = FALSE
  /\ initialised = FALSE
  /\ watched = FALSE
  /\ changes = 0
  /\ timers = 0
  /\ lcnc_pending = FALSE

DBUnused ==
  /\ store = EmptyRows
  /\ db_table = EmptyDBTable
  /\ db_session = FALSE
  /\ db_pc = "idle"
  /\ db_snapshot = EmptyDBTable
  /\ db_todo = NoChanges
  /\ tool_data_is_row = FALSE
  /\ db_interfered = FALSE

\* the state DBToolTable.__init__ leaves
DBInit ==
  /\ plugin = "db"
  /\ FileUnused
  /\ tool_in_spindle \in ToolNumbers
  /\ store \in InitialStores
  /\ db_table = EmptyDBTable
  /\ db_session = FALSE
  /\ db_pc = "idle"
  /\ db_snapshot = EmptyDBTable
  /\ db_todo = NoChanges
  /\ tool_data_is_row = FALSE
  /\ db_interfered = FALSE
  /\ last = Quiet("__init__", FALSE)

\* no MDI command was issued yet
NoMdi == [q |-> -1, tool_in_spindle |-> 0, homed |-> FALSE, enabled |-> FALSE]

\* the recovery of the spindle tool plays no part: the machine is not homed
RecoveryUnused ==
  /\ remember_tool_in_spindle = TRUE
  /\ all_axes_homed = FALSE
  /\ enabled = FALSE
  /\ remembered = 0
  /\ mdi_timers = {}
  /\ mdi = NoMdi
  /\ terminated = FALSE

Init == ((FileInit /\ DBUnused) \/ DBInit) /\ RecoveryUnused
Next == FileNext \/ DBNext
Spec == Init /\ [][Next]_vars

(***************************************************************************)
(* Recovery of the spindle tool: reload_tool, terminate                    *)
(***************************************************************************)
\* reload_tool(): the tool numbers of the commands it defers, none or one
reload_tool(remember, homed, en, tis, tnum) ==
  IF remember /\ homed /\ en /\ tis = 0 /\ tnum # tis THEN {tnum} ELSE {}

\* STATUS.all_axes_homed changes value; __init__ connected reload_tool to
\* it when the file existed, and the database plugin connects nothing
AllAxesHomedChanges ==
  /\ ~terminated
  /\ all_axes_homed' = ~all_axes_homed
  /\ mdi_timers' =
       IF plugin = "file" /\ notify_registered
       THEN mdi_timers \cup reload_tool(remember_tool_in_spindle,
                                        ~all_axes_homed, enabled,
                                        tool_in_spindle, remembered)
       ELSE mdi_timers
  /\ last' = Quiet("reload_tool", FALSE)
  /\ UNCHANGED <<plugin, fileVars, dbVars, remember_tool_in_spindle, enabled,
                 remembered, mdi, terminated>>

\* the machine is switched on or off
EnabledChanges ==
  /\ ~terminated
  /\ enabled' = ~enabled
  /\ last' = Quiet("idle", FALSE)
  /\ UNCHANGED <<plugin, fileVars, dbVars, remember_tool_in_spindle,
                 all_axes_homed, remembered, mdi_timers, mdi, terminated>>

\* the status the controller reports when issue_mdi(cmd) runs
Issued(n) ==
  [q |-> n, tool_in_spindle |-> tool_in_spindle, homed |-> all_axes_homed,
   enabled |-> enabled]

\* QTimer.singleShot(200, lambda: issue_mdi(cmd)) fires: "M61 Q<n> G43"
MdiTimerFires(n) ==
  /\ ~terminated
  /\ n \in mdi_timers
  /\ mdi_timers' = mdi_timers \ {n}
  /\ mdi' = Issued(n)
  /\ last' = Quiet("issue_mdi", FALSE)
  /\ UNCHANGED <<plugin, fileVars, dbVars, remember_tool_in_spindle,
                 all_axes_homed, enabled, remembered, terminated>>

\* ToolTable.terminate(): setData('tool-in-spindle', STAT.tool_in_spindle)
Terminate ==
  /\ plugin = "file"
  /\ ~terminated
  /\ terminated' = TRUE
  /\ remembered' = tool_in_spindle
  /\ last' = Quiet("terminate", FALSE)
  /\ UNCHANGED <<plugin, fileVars, dbVars, remember_tool_in_spindle,
                 all_axes_homed, enabled, mdi_timers, mdi>>

\* DBToolTable.terminate(): self.session.close()
DBTerminate ==
  /\ plugin = "db"
  /\ ~terminated
  /\ db_session
  /\ db_pc = "idle"
  /\ terminated' = TRUE
  /\ db_session' = FALSE
  /\ last' = Quiet("terminate", FALSE)
  /\ UNCHANGED <<plugin, fileVars, store, db_table, db_pc, db_snapshot,
                 db_todo, tool_data_is_row, db_interfered,
                 remember_tool_in_spindle, all_axes_homed, enabled,
                 remembered, mdi_timers, mdi>>

\* the application starts again: the machine is off and not homed, the
\* controller reports an empty spindle, the persistent data is kept
Restart ==
  /\ terminated
  /\ terminated' = FALSE
  /\ all_axes_homed' = FALSE
  /\ enabled' = FALSE
  /\ tool_in_spindle' = 0
  /\ chan' = IF plugin = "file" THEN TOOL_TABLE[0] ELSE chan
  /\ db_table' = EmptyDBTable
  /\ mdi_timers' = {}
  /\ mdi' = NoMdi
  /\ last' = Quiet("__init__", FALSE)
  /\ UNCHANGED <<plugin, file, TOOL_TABLE, orig_header_lines, columns,
                 template, notify_registered, initialised, watched, changes,
                 timers, lcnc_pending, store, db_session, db_pc, db_snapshot,
                 db_todo, tool_data_is_row, db_interfered,
                 remember_tool_in_spindle, remembered>>

\* the file service after __init__ and initialise(), with or without a file
RecoveryFileInit ==
  /\ plugin = "file"
  /\ file \in {NoFile, FileOf(FileBasic)}
  /\ tool_in_spindle \in ToolNumbers
  /\ ConstructedAs(Constructed(file, tool_in_spindle))
  /\ columns = ALL_COLUMNS
  /\ template = NoTemplate
  /\ notify_registered = file.exists
  /\ initialised = TRUE
  /\ watched = file.exists
  /\ changes = 0
  /\ timers = 0
  /\ lcnc_pending = FALSE

RecoveryInit ==
  /\ (RecoveryFileInit /\ DBUnused) \/ DBInit
  /\ remember_tool_in_spindle \in BOOLEAN
  /\ all_axes_homed = FALSE
  /\ enabled \in BOOLEAN
  /\ remembered \in ToolNumbers
  /\ mdi_timers = {}
  /\ mdi = NoMdi
  /\ terminated = FALSE

RecoveryNext ==
  \/ AllAxesHomedChanges
  \/ EnabledChanges
  \/ \E n \in ToolNumbers : MdiTimerFires(n)
  \/ Terminate
  \/ DBTerminate
  \/ Restart
  \/ ~terminated /\ DBInitialise
  \/ \E n \in ToolNumbers : ~terminated /\ ToolInSpindleChanges(n)
  \/ \E n \in ToolNumbers : ~terminated /\ DBToolInSpindleChanges(n)

RecoverySpec == RecoveryInit /\ [][RecoveryNext]_vars

(***************************************************************************)
(* The file service under write faults, item queries and rows that do not  *)
(* decode cleanly                                                          *)
(***************************************************************************)
\* rows with a value that fails coercion: after T, and before T
FileBadTokens ==
  <<<<";">>,
    <<"T","1"," ","P","1"," ","Z","1",".","2",".","3"," ","D","0",".","5"," ",";","b","e","n","t">>,
    <<"P","2"," ","Q","1",".","5"," ","T","2">>,
    <<"T","2"," ","P","2"," ","D","0",".","2","5">>>>

\* a row whose comment carries a model path and a color in brackets
FileBrackets ==
  <<<<";">>,
    <<"T","1"," ","P","1"," ","X","0",".","0","0","0","0","0","0"," ",
      "Z","-","1",".","5","0","0","0","0","0"," ",";",
      "[","t","o","o","l","A",".","s","t","l","]",
      "[","#","F","F","0","0","0","0","]","e","n","d"," ","m","i","l","l">>>>

\* two rows with tool number 1, a row of tool 2 between them
FileDuplicates ==
  <<<<";">>,
    <<"T","1"," ","P","1"," ","D","0",".","5"," ",";","f","i","r","s","t">>,
    <<"T","2"," ","P","2">>,
    <<"T","1"," ","P","5"," ","Z","-","1"," ",";","s","e","c","o","n","d">>>>

CodecFiles == {FileBasic, FileBadTokens, FileBrackets, FileDuplicates}

\* a table a caller builds without the record of key 0
TableNoSentinel == (1 :> ToolA) @@ (2 :> ToolB)
CodecTables == {TableAB, TableNoSentinel}
CodecColumns == {NoColumns, ColumnsPTDZR}

\* where the block that writes the file may raise
Faults == {"open", "write", "flush", "fsync"}

\* a save that tells the controller to reload before it writes the file
CommandBeforeWrite(f, lines, fault, k) ==
  [file |-> IF fault = "open" THEN f
            ELSE IF fault \in {"write", "flush"}
            THEN FileOf(SubSeq(lines, 1, k))
            ELSE FileOf(lines),
   modified |-> fault # "open",
   error |-> IF fault = "none" THEN NoError ELSE "IOError",
   command |-> TRUE]

\* open(tool_file, 'w'), write, flush, fsync and then CMD.load_tool_table():
\* the file they leave (k lines reached it when write or flush raised), the
\* error, and whether the command was issued
WriteOutcome(f, lines, fault, k) ==
  [file |-> IF fault = "open" THEN f
            ELSE IF fault \in {"write", "flush"}
            THEN FileOf(SubSeq(lines, 1, k))
            ELSE FileOf(lines),
   modified |-> fault # "open",
   error |-> IF fault = "none" THEN NoError ELSE "IOError",
   command |-> fault = "none"]

\* saveToolTable once the lines are built
SaveWritten(args, o) ==
  /\ orig_header_lines' = ExtendedHeader(orig_header_lines, template)
  /\ file' = o.file
  /\ changes' = IF watched /\ o.modified THEN Bump(changes) ELSE changes
  /\ lcnc_pending' = (lcnc_pending \/ o.command)
  /\ last' = [Call("saveToolTable", o.error, FALSE, 0, EmptyTable, o.command)
                EXCEPT !.args = args]

SaveEncoded(args, enc, fault, k) ==
  /\ plugin = "file"
  /\ initialised
  /\ Len(orig_header_lines) <= MaxHeaderLines
  /\ IF enc.ok
     THEN /\ k <= Len(enc.lines)
          /\ (fault \in {"write", "flush"} \/ k = 0)
          /\ SaveWritten(args, WriteOutcome(file, enc.lines, fault, k))
     ELSE /\ fault = "none"
          /\ k = 0
          /\ orig_header_lines' = ExtendedHeader(orig_header_lines, template)
          /\ last' = [Call("saveToolTable", "ValueError", FALSE, 0,
                           EmptyTable, FALSE) EXCEPT !.args = args]
          /\ UNCHANGED <<file, changes, lcnc_pending>>
  /\ UNCHANGED <<plugin, recVars, dbVars, TOOL_TABLE, columns, template,
                 tool_in_spindle, chan, notify_registered, initialised,
                 watched, timers>>

SaveColumnsIO(tool_table, cols, fault, k) ==
  SaveEncoded([table |-> tool_table, columns |-> cols],
              EncodeFile(tool_table, cols, columns[1], orig_header_lines,
                         template),
              fault, k)

\* saveToolTable(tool_table, columns) with the faults of the file system
SaveToolTableIO(tool_table, spec, fault, k) ==
  SaveColumnsIO(tool_table, ColumnsOr(spec, columns), fault, k)

\* loadToolTable() called by a collaborator
LoadToolTable ==
  /\ plugin = "file"
  /\ initialised
  /\ LoadStep("loadToolTable")
  /\ UNCHANGED <<plugin, recVars, dbVars, file, columns, template,
                 tool_in_spindle, notify_registered, initialised, watched,
                 changes, timers, lcnc_pending>>

\* a field of a record as the Python value it holds: its type, its
\* number or its text
FieldValue(tool, key) ==
  IF key \in TextColumns THEN [ty |-> "str", n |-> 0, s |-> tool[key]]
  ELSE IF key \in IntColumns THEN [ty |-> "int", n |-> tool[key], s |-> <<>>]
  ELSE [ty |-> "float", n |-> tool[key], s |-> <<>>]

None == [ty |-> "none", n |-> 0, s |-> <<>>]

\* dict.get(key)
Get(tool, key) ==
  IF key \in DOMAIN tool THEN FieldValue(tool, key) ELSE None

\* current_tool(item): TOOL_TABLE[tool_in_spindle].get(item[0].upper())
current_tool_item(table, tis, item) ==
  IF tis \in DOMAIN table
  THEN [ok |-> TRUE, value |-> Get(table[tis], UpperChar(item[1]))]
  ELSE [ok |-> FALSE, value |-> None]

\* the item keys the rules ask for
ItemKeys ==
  {<<"T">>, <<"z">>, <<"R">>, <<"S","T","L">>, <<"C","O","L","O","R">>,
   <<"x","_","o","f","f","s","e","t">>}

QueryCurrentToolItem(item) ==
  LET r == current_tool_item(TOOL_TABLE, tool_in_spindle, item)
  IN /\ plugin = "file"
     /\ last' = [Call("current_tool_item",
                      IF r.ok THEN NoError ELSE "KeyError",
                      FALSE, 0, EmptyTable, FALSE)
                   EXCEPT !.result = [ok |-> r.ok, tool |-> DEFAULT_TOOL,
                                      item |-> item, value |-> r.value]]
     /\ UNCHANGED <<plugin, recVars, dbVars, fileVars>>

\* the file service after __init__ and initialise()
CodecInit ==
  /\ plugin = "file"
  /\ file \in {NoFile} \cup {FileOf(l) : l \in CodecFiles}
  /\ tool_in_spindle \in ToolNumbers
  /\ ConstructedAs(Constructed(file, tool_in_spindle))
  /\ columns \in {ALL_COLUMNS, validateColumns(ColumnsPTDZR)}
  /\ template = NoTemplate
  /\ notify_registered = file.exists
  /\ initialised = TRUE
  /\ watched = file.exists
  /\ changes = 0
  /\ timers = 0
  /\ lcnc_pending = FALSE
  /\ DBUnused
  /\ RecoveryUnused

\* lines that reached the file before write or flush raised: at most
MaxWritten == 1

CodecNext ==
  \/ LoadToolTable
  \/ \E lines \in CodecFiles : ExternalWrite(lines)
  \/ StatusToolTableNotify
  \/ StatusToolTableUnheard
  \/ \E n \in ToolNumbers : ToolInSpindleChanges(n)
  \/ \E item \in ItemKeys : QueryCurrentToolItem(item)
  \/ \E t \in CodecTables, c \in CodecColumns,
        fault \in Faults \cup {"none"}, k \in 0..MaxWritten :
       SaveToolTableIO(t, c, fault, k)

CodecSpec == CodecInit /\ [][CodecNext]_vars

(***************************************************************************)
(* newTool: the record offered for a tool that is to be added             *)
(***************************************************************************)
NewToolRemark == <<"N","e","w"," ","T","o","o","l">>

\* ToolTable.newTool(): tnum = len(self.TOOL_TABLE)
newTool(table) ==
  [DEFAULT_TOOL EXCEPT !.T = Cardinality(DOMAIN table), !.R = NewToolRemark]

\* the class attribute TOOL_TABLE of DBToolTable, which nothing assigns
DB_TOOL_TABLE == (0 :> NO_TOOL)

\* DBToolTable.newTool(): tnum = len(self.TOOL_TABLE)
db_newTool(table) ==
  [DB_DEFAULT_TOOL EXCEPT !.T = PyInt(Cardinality(DOMAIN table)),
                          !.R = PyStr("New Tool")]

NewTool ==
  /\ plugin = "file"
  /\ last' = [Quiet("newTool", FALSE)
                EXCEPT !.result = [ok |-> TRUE, tool |-> newTool(TOOL_TABLE)]]
  /\ UNCHANGED <<plugin, recVars, dbVars, fileVars>>

DBNewTool ==
  /\ plugin = "db"
  /\ db_pc = "idle"
  /\ last' = [Quiet("db_newTool", FALSE)
                EXCEPT !.result = [ok |-> TRUE,
                                   tool |-> db_newTool(DB_TOOL_TABLE)]]
  /\ UNCHANGED <<plugin, recVars, dbVars, fileVars>>

NewToolNext ==
  \/ Initialise
  \/ \E lines \in SampleFiles : ExternalWrite(lines)
  \/ ReloadToolTable
  \/ \E n \in ToolNumbers : ToolInSpindleChanges(n)
  \/ NewTool
  \/ DBInitialise
  \/ DBLoadToolTable
  \/ \E k \in DOMAIN store : DBExternalDelete(k)
  \/ \E row \in ExternalRows : DBExternalInsert(row)
  \/ DBNewTool

NewToolSpec == Init /\ [][NewToolNext]_vars

(***************************************************************************)
(* Properties                                                              *)
(***************************************************************************)
DBLoadOps == {"db_load", "db_reload"}

\* the table a reader should see for a file, and for the rows of a store
DecodedTable == DecodeFile(file.lines, <<>>).table
StoreTable == LoadedTable(EmptyDBTable, store)

\* C1: every reload replaces the in-memory table as a whole.  After a load
\* that assigned the table, the file service holds exactly the table decoded
\* from the file, and the database service holds exactly the table built
\* from the rows of the store: no row that the source no longer contains.
C1_ReloadReplacesWholeTable ==
  /\ (plugin = "file" /\ last.replaced) => TOOL_TABLE = DecodedTable
  /\ (plugin = "db" /\ last.op \in DBLoadOps) => db_table = StoreTable

\* C2: whatever the file holds, the in-memory table of the file service has
\* key 0, and the record at key 0 has T = 0 and the remark "No Tool Loaded".
C2_SentinelIsFixed ==
  plugin = "file" =>
    /\ 0 \in DOMAIN TOOL_TABLE
    /\ TOOL_TABLE[0].T = 0
    /\ TOOL_TABLE[0].R = NoToolRemark

\* the callbacks a save of the file service triggers have all run
CallbacksDone == ~lcnc_pending /\ changes = 0 /\ timers = 0

\* C3: once a save and the callbacks it triggers have run, the in-memory
\* table equals the table obtained from what is stored: the table decoded
\* from the written file, or the table loaded from the rows of the store.
C3_SaveIsFollowedByReload ==
  /\ (plugin = "file" /\ notify_registered /\ last.after_save
        /\ CallbacksDone) =>
       (file.exists /\ TOOL_TABLE = DecodedTable)
  /\ (plugin = "db" /\ last.op = "db_save" /\ last.error = NoError
        /\ ~db_interfered) =>
       db_table = StoreTable

\* C4: tool_table_changed is emitted, carrying the new table, by every load
\* that replaced the in-memory table and by every successful save.
C4_ChangeEventAfterReplaceOrSave ==
  /\ last.replaced => (last.emits >= 1 /\ last.event = TOOL_TABLE)
  /\ (plugin = "db" /\ last.op = "db_save" /\ last.error = NoError) =>
       last.emits >= 1

\* the store holds exactly the tools of a table, with its field values
StoreHolds(desired) ==
  /\ DOMAIN store = DOMAIN desired
  /\ \A k \in DOMAIN desired : store[k] = RowOf(desired[k])

\* C5: a save of the database service that no other process interferes
\* with applies the whole changeset (insertions, updates, deletions): it
\* returns normally and the store then holds exactly the desired tool
\* numbers with the desired field values.
C5_SaveAppliesWholeChangeset ==
  (plugin = "db" /\ last.op = "db_save" /\ ~db_interfered) =>
    (last.error = NoError /\ StoreHolds(db_table))

Range(seq) == {seq[i] : i \in 1..Len(seq)}
InBoth(persisted, desired) == DOMAIN persisted \cap DOMAIN desired
Differ(a, b) == \E f \in DBFields : ~PyEq(a[f], b[f])

\* C6: the changeset computed by saveToolTable has as insertions the tool
\* numbers only in the desired table, as deletions the tool numbers only in
\* the persisted snapshot, and as updates the tool numbers in both whose
\* records differ in at least one field, whatever the kind of difference;
\* the three sets are pairwise disjoint.
C6_ChangesetIsExactDiff ==
  (plugin = "db" /\ db_pc = "apply") =>
    LET cs == Changeset(db_snapshot, db_table)
    IN /\ Range(cs.ins) = DOMAIN db_table \ DOMAIN db_snapshot
       /\ Range(cs.del) = DOMAIN db_snapshot \ DOMAIN db_table
       /\ Range(cs.upd) =
            {k \in InBoth(db_snapshot, db_table) :
               Differ(db_snapshot[k], db_table[k])}
       /\ Range(cs.ins) \cap Range(cs.upd) = {}
       /\ Range(cs.ins) \cap Range(cs.del) = {}
       /\ Range(cs.upd) \cap Range(cs.del) = {}

\* the row the next pass of the update or delete loop looks up is gone
TargetMissing ==
  /\ plugin = "db"
  /\ db_pc = "apply"
  /\ db_todo.ins = <<>>
  /\ \/ db_todo.upd # <<>> /\ Head(db_todo.upd) \notin DOMAIN store
     \/ /\ db_todo.upd = <<>>
        /\ db_todo.del # <<>>
        /\ Head(db_todo.del) \notin DOMAIN store

\* C7: when the row an update or a delete targets is missing from the
\* store, the pass that looks it up ends saveToolTable with an error that
\* reaches the caller; the target is not skipped, and the rows committed
\* before stay as they are.
C7_MissingTargetRaises ==
  [][(TargetMissing /\ db_todo' # db_todo) =>
       /\ last'.op = "db_save"
       /\ last'.error # NoError
       /\ db_pc' = "idle"
       /\ store' = store]_vars

\* a save inserted tool 4, another process then removed the row to update,
\* and the save ended with NoResultFound, tool 4 still stored
C7_Witness ==
  /\ plugin = "db"
  /\ last.op = "db_save"
  /\ last.error = "NoResultFound"
  /\ db_interfered
  /\ 4 \in DOMAIN store

\* the table current_tool reads
TableRead == IF plugin = "file" THEN TOOL_TABLE ELSE db_table

\* C8: current_tool returns the full record of the tool in the spindle
\* when that number is a key of the in-memory table, and ends in a KeyError
\* otherwise; it never returns a default or sentinel record.
C8_CurrentToolOrError ==
  last.op = "current_tool" =>
    IF tool_in_spindle \in DOMAIN TableRead
    THEN /\ last.error = NoError
         /\ last.result = [ok |-> TRUE, tool |-> TableRead[tool_in_spindle]]
    ELSE /\ last.error = "KeyError"
         /\ ~last.result.ok

\* current_tool was asked for a spindle tool that the loaded file does not
\* hold
C8_Witness ==
  /\ plugin = "file"
  /\ file.exists
  /\ last.op = "current_tool"
  /\ last.error = "KeyError"
  /\ tool_in_spindle \notin DOMAIN TOOL_TABLE

\* the value a column holds after a save and a load
RoundTrip(col, v) ==
  IF col \in IntColumns \cup TextColumns THEN v ELSE Rounded(v)

\* C9: for a table and columns that include T, saveToolTable writes a file
\* whose load gives, for every tool number above 0 and every column saved,
\* the value of the table rounded to 6 decimal places (integers and the
\* remark unchanged).
C9_SaveLoadRoundTrip ==
  (plugin = "file" /\ last.op = "saveToolTable"
     /\ "T" \in Range(last.args.columns)) =>
    /\ last.error = NoError
    /\ file.exists
    /\ \A k \in DOMAIN last.args.table \ {0} :
         /\ k \in DOMAIN DecodedTable
         /\ \A col \in Range(last.args.columns) :
              DecodedTable[k][col] = RoundTrip(col, last.args.table[k][col])

\* the lines of the file as loadToolTable sees them
FileLines == StripLines(file.lines)

\* C10: the header loadToolTable keeps consists of lines that precede the
\* row-delimiter marker, unchanged; it holds neither the marker line nor a
\* line that is exactly '---'.
C10_HeaderExcludesMarker ==
  (plugin = "file" /\ last.replaced /\ LastMarker(FileLines) > 0) =>
    /\ Len(orig_header_lines) < LastMarker(FileLines)
    /\ \A i \in 1..Len(orig_header_lines) :
         /\ orig_header_lines[i] = FileLines[i]
         /\ orig_header_lines[i] # Separator

\* C11: when the watched file was deleted, the debounce timer has run its
\* reload attempt and the file is then written again, the file is watched
\* again or a reload attempt that will watch it is still to come: the file
\* never ends up existing but unwatched for good.
C11_WatchRearmedAfterRewrite ==
  [][(plugin = "file" /\ last.op = "timer_reload" /\ ~file.exists
        /\ file'.exists) =>
       (watched' \/ changes' > 0 \/ timers' > 0)]_vars

\* C12: "M61 Q<n> G43" is issued only while the spindle is still empty:
\* no interleaving of a spindle tool change with the deferred issue makes
\* the command go out when the spindle reports a tool other than 0.
C12_MdiOnlyWhenSpindleEmpty ==
  mdi.q # -1 => mdi.tool_in_spindle = 0

\* the handlers of the file service that run loadToolTable
FileLoadOps == {"__init__", "timer_reload", "reloadToolTable",
                "tool_table_notify", "loadToolTable"}

\* C14: a load that finds the file absent does not fail and leaves the
\* service Empty: the in-memory table is exactly the sentinel record at
\* key 0, and so is the table of any change event the load emits.
C14_AbsentFileGivesSentinelOnly ==
  (plugin = "file" /\ ~file.exists /\ last.op \in FileLoadOps) =>
    /\ last.error = NoError
    /\ TOOL_TABLE = (0 :> NO_TOOL)
    /\ (last.emits > 0 => last.event = (0 :> NO_TOOL))

\* C15: terminate, in either service, stores the tool number that is in the
\* spindle at that moment under the recovery key, so that the number
\* reload_tool reads after a restart is the tool of the termination, and
\* the database service gives up its session.
C15_TerminatePersistsSpindleTool ==
  [][(terminated' /\ ~terminated) =>
       /\ remembered' = tool_in_spindle
       /\ (plugin = "db" => ~db_session')]_vars

\* C13: saveToolTable tells the controller to reload only after the whole
\* content was written, flushed and fsynced; when open, write, flush or
\* fsync raises, the error reaches the caller and the command is not issued.
C13_ReloadCommandOnlyAfterDurableWrite ==
  [][last'.op = "saveToolTable" =>
       /\ (last'.error # NoError => lcnc_pending' = lcnc_pending)
       /\ (last'.after_save =>
             /\ last'.error = NoError
             /\ lcnc_pending'
             /\ file' = FileOf(EncodeFile(last'.args.table,
                                          last'.args.columns, columns[1],
                                          orig_header_lines, template).lines))
     ]_vars

\* a save whose write was cut short: the file is truncated, the error was
\* raised and no reload command is pending
C13_Witness ==
  /\ last.op = "saveToolTable"
  /\ last.error = "IOError"
  /\ file.exists
  /\ file.lines = <<>>
  /\ ~lcnc_pending

\* the rows of a written file: the lines after the column titles
WrittenRows ==
  SubSeq(file.lines, LastMarker(file.lines) + 1, Len(file.lines))

\* C16: whatever table is saved, with or without key 0, the written file
\* has exactly one row for each tool number greater than 0, in ascending
\* order, and no other row.
C16_OneRowPerPositiveToolNumber ==
  (plugin = "file" /\ last.op = "saveToolTable" /\ last.after_save) =>
    LET nums == SortedKeys({k \in DOMAIN last.args.table : k > 0})
    IN /\ Len(WrittenRows) = Len(nums)
       /\ \A i \in 1..Len(nums) :
            WrittenRows[i] = EncodeRow(last.args.table[nums[i]],
                                       last.args.columns)

\* the letters of the tokens of a written row, in order
Descriptors(line) ==
  LET items == FindItems(RemoveSpaces(Partition(line, ";")[1]), 1)
  IN [j \in 1..Len(items) |-> items[j][1]]

\* C17: for every accepted column configuration, the default of all
\* columns included, saveToolTable completes, and each written row has a
\* token for exactly the non-remark columns, in the configured order.
C17_SaveCompletesForEveryConfiguration ==
  (plugin = "file" /\ last.op = "saveToolTable") =>
    /\ last.error # "ValueError"
    /\ (last.after_save =>
          \A i \in 1..Len(WrittenRows) :
            Descriptors(WrittenRows[i])
              = SelectSeq(last.args.columns, LAMBDA c : c # "R"))

\* the field an item key names: the column of that name in any letter
\* case, else the column of its first letter
NamedField(item) ==
  IF \E c \in AllColumnSet : ColumnChars[c] = Upper(item)
  THEN CHOOSE c \in AllColumnSet : ColumnChars[c] = Upper(item)
  ELSE UpperChar(item[1])

\* C18: current_tool with an item key returns the named field of the tool
\* in the spindle, for every listed item, in any letter case and for
\* aliases such as x_offset; STL gives the model, COLOR the path color.
C18_ItemNamesItsField ==
  (plugin = "file" /\ last.op = "current_tool_item" /\ last.error = NoError)
    => last.result.value
         = FieldValue(TOOL_TABLE[tool_in_spindle],
                      NamedField(last.result.item))

\* the rows of the file as loadToolTable sees them
DataRows ==
  LET lines == StripLines(file.lines)
  IN SubSeq(lines, LastMarker(lines) + 1, Len(lines))

Coerce(item) ==
  IF item[1] \in IntColumns THEN ParseInt(Tail(item))
  ELSE ParseFloat(Tail(item))

\* index of the first token whose value fails coercion, Len + 1 if none
FirstFailure(items) ==
  LET bad == {i \in 1..Len(items) :
                items[i][1] \in AllColumnSet /\ ~Coerce(items[i]).ok}
  IN IF bad = {} THEN Len(items) + 1
     ELSE CHOOSE i \in bad : \A j \in bad : i <= j

\* the value of a column after the tokens before stop
FieldBefore(items, stop, col) ==
  LET at == {i \in 1..(stop - 1) : items[i][1] = col}
  IN IF at = {} THEN DEFAULT_TOOL[col]
     ELSE Coerce(items[CHOOSE i \in at : \A j \in at : j <= i]).v

\* the record a row stands for when a failed coercion abandons only the
\* tokens after it
ExpectedItems(items, comment) ==
  [col \in DOMAIN DEFAULT_TOOL |->
     IF col = "R" THEN Strip(comment)
     ELSE FieldBefore(items, FirstFailure(items), col)]

ExpectedRecord(line) ==
  ExpectedItems(FindItems(RemoveSpaces(Partition(line, ";")[1]), 1),
                Partition(line, ";")[2])

ExpectedRecords == [i \in 1..Len(DataRows) |-> ExpectedRecord(DataRows[i])]

\* the loaded table holds record i of recs: every row with a tool number
\* is in the table unless a later row has the same number
HoldsRows(table, recs) ==
  /\ DOMAIN table = {0} \cup ({recs[i].T : i \in 1..Len(recs)} \ {-1})
  /\ \A i \in 1..Len(recs) :
       (recs[i].T # -1 /\ \A j \in (i + 1)..Len(recs) : recs[j].T # recs[i].T)
         => table[recs[i].T] = recs[i]

\* C19: a token whose value fails coercion abandons only the rest of its
\* row: earlier fields keep their parsed values, the others their defaults,
\* the row is in the table iff its T was parsed before the failure, and
\* every later row is still decoded.
C19_BadTokenAbandonsRestOfRow ==
  (plugin = "file" /\ file.exists /\ last.op \in FileLoadOps) =>
    HoldsRows(TOOL_TABLE, ExpectedRecords)

\* the file with the failing values was loaded: tool 1 kept T and P and
\* lost Z and D, the row without T is absent, the last row gave tool 2
C19_Witness ==
  /\ file = FileOf(FileBadTokens)
  /\ last.op = "loadToolTable"
  /\ DOMAIN TOOL_TABLE = {0, 1, 2}
  /\ TOOL_TABLE[1].P = 1
  /\ TOOL_TABLE[1].Z = 0
  /\ TOOL_TABLE[1].D = 0
  /\ TOOL_TABLE[2].D = 2500000

\* C20: bracketed metadata of a comment goes to the model-path and color
\* fields and not to the remark: "T1 P1 X0.000000 Z-1.500000
\* ;[toolA.stl][#FF0000]end mill" gives T=1, P=1, X=0.0, Z=-1.5, remark
\* "end mill", model "toolA.stl", color "#FF0000".
C20_BracketsSplitFromRemark ==
  (plugin = "file" /\ file = FileOf(FileBrackets)
     /\ last.op \in FileLoadOps /\ 1 \in DOMAIN TOOL_TABLE) =>
    /\ TOOL_TABLE[1].T = 1
    /\ TOOL_TABLE[1].P = 1
    /\ TOOL_TABLE[1].X = 0
    /\ TOOL_TABLE[1].Z = -15000000
    /\ TOOL_TABLE[1].R = <<"e","n","d"," ","m","i","l","l">>
    /\ TOOL_TABLE[1].STL = <<"t","o","o","l","A",".","s","t","l">>
    /\ TOOL_TABLE[1].COLOR = <<"#","F","F","0","0","0","0">>

\* the column of the tool table that holds each field of a record
SameName ==
  [X |-> "x_offset", Y |-> "y_offset", Z |-> "z_offset", A |-> "a_offset",
   B |-> "b_offset", C |-> "c_offset", U |-> "u_offset", V |-> "v_offset",
   W |-> "w_offset", D |-> "diameter", P |-> "pocket", R |-> "remark",
   T |-> "tool_no"]

\* C21: loadToolTable of the database service gives every persisted row a
\* record by the same-name correspondence saveToolTable uses (C from
\* c_offset, and so on), so that a loaded record repeats each of these
\* fields of its row.
C21_LoadMapsSameNameFields ==
  (plugin = "db" /\ last.op \in DBLoadOps /\ last.error = NoError) =>
    \A k \in DOMAIN store : \A f \in DOMAIN SameName :
      k \in DOMAIN db_table /\ db_table[k][f] = store[k][SameName[f]]

\* C22: in the file service the value published on the current_tool
\* channel is the in-memory table's record of the tool the controller
\* reports in the spindle, after every reload and every change of the
\* spindle tool, also when the file was absent at construction.
C22_ChannelFollowsSpindleTool ==
  (plugin = "file" /\ tool_in_spindle \in DOMAIN TOOL_TABLE) =>
    chan = TOOL_TABLE[tool_in_spindle]

\* C23: every entry of the in-memory table of the file service is keyed by
\* its own tool number and no key is -1; of several rows of a file with
\* the same tool number the table holds the last.
C23_KeyedByToolNumberLastWins ==
  plugin = "file" =>
    /\ \A k \in DOMAIN TOOL_TABLE : TOOL_TABLE[k].T = k
    /\ -1 \notin DOMAIN TOOL_TABLE
    /\ (file.exists /\ last.op \in FileLoadOps) =>
         \A i \in 1..Len(DataRows) :
           (/\ DecodeRow(DataRows[i]).T # -1
            /\ \A j \in (i + 1)..Len(DataRows) :
                 DecodeRow(DataRows[j]).T # DecodeRow(DataRows[i]).T)
             => TOOL_TABLE[DecodeRow(DataRows[i]).T] = DecodeRow(DataRows[i])

\* the file with two rows of tool 1 was loaded: the table has the second
C23_Witness ==
  /\ file = FileOf(FileDuplicates)
  /\ last.op = "loadToolTable"
  /\ TOOL_TABLE[1].P = 5
  /\ TOOL_TABLE[1].R = <<"s","e","c","o","n","d">>

\* the triggers of a reload of the file service
ReloadTriggers == {"reloadToolTable", "timer_reload", "tool_table_notify"}

\* C24: each reload of the file service that installs a table, by any of
\* its triggers, emits tool_table_changed exactly once, and the event
\* carries the table the reload installed.
C24_ReloadEmitsOnce ==
  (plugin = "file" /\ last.op \in ReloadTriggers /\ last.error = NoError
     /\ last.replaced) =>
    /\ last.emits = 1
    /\ last.event = TOOL_TABLE

\* C25: saving is idempotent on the header: a save leaves the preserved
\* header (orig_header_lines) as it found it, so that the header lines the
\* next save writes are those this save wrote.
C25_SaveKeepsHeader ==
  [][(plugin = "file" /\ last'.op = "saveToolTable") =>
       /\ orig_header_lines' = orig_header_lines
       /\ WrittenHeader(orig_header_lines', template)
            = WrittenHeader(orig_header_lines, template)]_vars

\* C26: newTool() without a tool number returns a record whose tool number
\* is not a key of the in-memory table, whatever the table is, gaps in the
\* numbering included, so that adding the record overwrites no tool.
C26_NewToolNumberIsFree ==
  /\ (plugin = "file" /\ last.op = "newTool") =>
       last.result.tool.T \notin DOMAIN TOOL_TABLE
  /\ (plugin = "db" /\ last.op = "db_newTool") =>
       last.result.tool.T.n \notin DOMAIN db_table

====
